---- MODULE Spec2Model ----
(***************************************************************************)
(* myano front end: the scanner (src/src/token.rs), the recursive-descent  *)
(* parser (src/src/parse.rs), the diagnostic report (src/src/report.rs)    *)
(* and the binder's scope stack (src/src/bind.rs).                         *)
(***************************************************************************)
EXTENDS Integers, Sequences, FiniteSets, TLC

\* ------------------------------------------------------------------ bounds
MaxSrcLen == 4
MaxTokens == 3
MaxOps == 3
MaxDepth == 3

\* Option::None for handles and token references
NONE == -1

VARIABLES
  \* Tokenize (token.rs:109-115) and the value tokenize returns
  src, iter, start, current, tokens, report, result,
  \* Parser (parse.rs:81-87): the token kinds it reads, its iterator, arena
  \* and report; the call stack of its recursive descent, the handle the
  \* last call returned, and the value parse returns
  stream, cursor, nodes, diagnostics, stack, ret, ast,
  \* Bindings.map (bind.rs:26), whether a scope call panicked, and for the
  \* claims the history of the scope calls: the stack as it was at each
  \* scope_begin still open, and the last call made
  map, binder, saved, last

tokVars == <<src, iter, start, current, tokens, report, result>>
parseVars == <<stream, cursor, nodes, diagnostics, stack, ret, ast>>
bindVars == <<map, binder, saved, last>>
vars == <<tokVars, parseVars, bindVars>>

\* the sequences over S of length at most n
RECURSIVE SeqsUpTo(_, _)
SeqsUpTo(S, n) ==
  IF n = 0 THEN {<<>>}
  ELSE LET shorter == SeqsUpTo(S, n - 1)
       IN shorter \cup {Append(q, c) : q \in {x \in shorter : Len(x) = n - 1}, c \in S}

\* ------------------------------------------------------------ source text
\* A source text is a sequence of characters. "e2" stands for a two-byte
\* alphabetic character (U+00E9), "nbsp" for the two-byte whitespace U+00A0,
\* "#" for a character no arm of the scanner recognises.
Chars == {"+", "=", ".", "1", "i", "f", "e2", " ", "nbsp", "#"}

\* char::len_utf8
Width(c) == IF c \in {"e2", "nbsp"} THEN 2 ELSE 1
is_whitespace(c) == c \in {" ", "nbsp"}
is_numeric(c) == c \in {"1"}
is_alphabetic(c) == c \in {"i", "f", "e2"}
is_alphanumeric(c) == is_alphabetic(c) \/ is_numeric(c)

Symbols == {"+", "-", "*", "/", "(", ")", "[", "]", "{", "}", ".", ",", ":", ";"}

SymbolKind(c) ==
  CASE c = "+" -> "Plus" [] c = "-" -> "Minus" [] c = "*" -> "Star"
    [] c = "/" -> "Slash" [] c = "(" -> "LParen" [] c = ")" -> "RParen"
    [] c = "[" -> "LBracket" [] c = "]" -> "RBracket" [] c = "{" -> "LBrace"
    [] c = "}" -> "RBrace" [] c = "." -> "Dot" [] c = "," -> "Comma"
    [] c = ":" -> "Colon" [] c = ";" -> "SemiColon"

RECURSIVE ByteOff(_, _)
\* the byte offset at which character number i (0-based) of text s starts
ByteOff(s, i) == IF i = 0 THEN 0 ELSE ByteOff(s, i - 1) + Width(s[i])

ByteLen(s) == ByteOff(s, Len(s))

IsCharBoundary(s, b) == \E i \in 0..Len(s) : ByteOff(s, i) = b

CharIndex(s, b) == CHOOSE i \in 0..Len(s) : ByteOff(s, i) = b

\* &s[a..b]: str indexing by a byte range panics off a character boundary
SliceOk(s, a, b) == a <= b /\ IsCharBoundary(s, a) /\ IsCharBoundary(s, b)

Slice(s, a, b) == SubSeq(s, CharIndex(s, a) + 1, CharIndex(s, b))

\* ------------------------------------------------------------------ Token
Token(kind, a, b) == [kind |-> kind, s |-> a, e |-> b]

\* Tokenize::add
add_token(toks, kind, a, b) == Append(toks, Token(kind, a, b))

\* a scanner that forgets the sentinel
eof_forgotten(toks) == toks

\* Tokenize::eof
eof(toks) == Append(toks, Token("Eof", 0, 0))

\* Report::error pushes the message; Report::ok is "no error pushed"
error(rep, msg) == Append(rep, msg)

ok(rep) == rep = <<>>

\* TokenStream::str_from
str_from_ok(s, t) == SliceOk(s, t.s, t.e)

str_from(s, t) == Slice(s, t.s, t.e)

\* --------------------------------------------------------------- Tokenize
Pending == [tag |-> "Pending"]
Panicked == [tag |-> "Panic"]

RECURSIVE SkipNumeric(_, _)
\* while let Some(c) = iter.peek() { if !c.is_numeric() { break } advance }
SkipNumeric(s, i) ==
  IF i < Len(s) /\ is_numeric(s[i + 1]) THEN SkipNumeric(s, i + 1) ELSE i

RECURSIVE SkipAlphanumeric(_, _)
SkipAlphanumeric(s, i) ==
  IF i < Len(s) /\ is_alphanumeric(s[i + 1]) THEN SkipAlphanumeric(s, i + 1) ELSE i

\* the end of a numeric literal whose first digit was consumed, iterator at i
NumericEnd(s, i) ==
  LET j == SkipNumeric(s, i)
  IN IF j < Len(s) /\ s[j + 1] = "." THEN SkipNumeric(s, j + 1) ELSE j

\* a scanner that takes "1." for an Integer: Float only with a fraction digit
NumericKindNeedsFraction(s, i) ==
  LET j == SkipNumeric(s, i)
  IN IF j + 1 < Len(s) /\ s[j + 1] = "." /\ is_numeric(s[j + 2]) THEN "Float" ELSE "Integer"

NumericKind(s, i) ==
  LET j == SkipNumeric(s, i)
  IN IF j < Len(s) /\ s[j + 1] = "." THEN "Float" ELSE "Integer"

Keyword(text) ==
  CASE text = <<"t", "r", "u", "e">> -> "True"
    [] text = <<"f", "a", "l", "s", "e">> -> "False"
    [] text = <<"i", "f">> -> "If"
    [] text = <<"e", "l", "s", "e">> -> "Else"
    [] text = <<"l", "e", "t">> -> "Let"
    [] text = <<"m", "u", "t">> -> "Mut"
    [] text = <<"f", "n">> -> "Fn"
    [] OTHER -> "Identifier"

Scanning == result.tag = "Pending" /\ iter < Len(src)

\* one turn of the while-let loop: the character taken, start and current
Taken == src[iter + 1]

\* '+' | '-' | ... | ';' arms
ScanSymbol ==
  /\ Scanning /\ Taken \in Symbols
  /\ iter' = iter + 1
  /\ start' = current
  /\ current' = current + 1
  /\ tokens' = add_token(tokens, SymbolKind(Taken), current, current + 1)
  /\ UNCHANGED <<src, report, result, parseVars, bindVars>>

\* '=' arm with one character of lookahead
ScanEqual ==
  /\ Scanning /\ Taken = "="
  /\ LET two == iter + 1 < Len(src) /\ src[iter + 2] \in {"=", ">"}
         kind == IF ~two THEN "Equal"
                 ELSE IF src[iter + 2] = "=" THEN "EqualEqual" ELSE "EqualGreater"
         n == IF two THEN 2 ELSE 1
     IN /\ iter' = iter + n
        /\ start' = current
        /\ current' = current + n
        /\ tokens' = add_token(tokens, kind, current, current + n)
  /\ UNCHANGED <<src, report, result, parseVars, bindVars>>

ScanWhitespace ==
  /\ Scanning /\ Taken \notin Symbols \cup {"="} /\ is_whitespace(Taken)
  /\ iter' = iter + 1
  /\ start' = current
  /\ current' = current + 1
  /\ UNCHANGED <<src, tokens, report, result, parseVars, bindVars>>

ScanNumber ==
  /\ Scanning /\ Taken \notin Symbols \cup {"="}
  /\ ~is_whitespace(Taken) /\ is_numeric(Taken)
  /\ LET j == NumericEnd(src, iter + 1)
         cur == current + (j - iter)
     IN /\ iter' = j
        /\ start' = current
        /\ current' = cur
        /\ tokens' = add_token(tokens, NumericKind(src, iter + 1), current, cur)
  /\ UNCHANGED <<src, report, result, parseVars, bindVars>>

ScanWord ==
  /\ Scanning /\ Taken \notin Symbols \cup {"="}
  /\ ~is_whitespace(Taken) /\ ~is_numeric(Taken) /\ is_alphabetic(Taken)
  /\ LET j == SkipAlphanumeric(src, iter + 1)
         cur == current + (j - iter)
     IN /\ iter' = j
        /\ start' = current
        /\ current' = cur
        /\ IF SliceOk(src, current, cur)
           THEN /\ tokens' = add_token(tokens, Keyword(Slice(src, current, cur)), current, cur)
                /\ result' = result
           ELSE /\ tokens' = tokens
                /\ result' = Panicked
  /\ UNCHANGED <<src, report, parseVars, bindVars>>

ScanUnknown ==
  /\ Scanning /\ Taken \notin Symbols \cup {"="}
  /\ ~is_whitespace(Taken) /\ ~is_numeric(Taken) /\ ~is_alphabetic(Taken)
  /\ iter' = iter + 1
  /\ start' = current
  /\ current' = current + 1
  /\ report' = error(report, [ch |-> Taken, at |-> current])
  /\ UNCHANGED <<src, tokens, result, parseVars, bindVars>>

\* after the loop: self.eof(), then Ok(TokenStream) or Err(report)
Finish ==
  /\ result.tag = "Pending" /\ iter = Len(src)
  /\ tokens' = eof(tokens)
  /\ result' = IF ok(report)
               THEN [tag |-> "Ok", tokens |-> eof(tokens)]
               ELSE [tag |-> "Err", report |-> report]
  /\ UNCHANGED <<src, iter, start, current, report, parseVars, bindVars>>

\* ----------------------------------------------------------------- Parser
\* The parser's own state as one record, so that each function of the
\* recursive descent is an operator from state to state.
Parser == [cursor |-> cursor, nodes |-> nodes, report |-> diagnostics,
           stack |-> stack, ret |-> ret, result |-> ast]

\* a call frame: the function, where it resumes, and its locals
Frame(fn) == [fn |-> fn, pc |-> 0, a |-> NONE, b |-> NONE, op |-> NONE,
              name |-> NONE, list |-> <<>>, end |-> "none"]

top(p) == p.stack[Len(p.stack)]

\* call g, resuming the caller as frame f when g returns
Invoke(p, f, g) == [p EXCEPT !.stack = Append([@ EXCEPT ![Len(@)] = f], g)]

Return(p, v) == [p EXCEPT !.stack = SubSeq(@, 1, Len(@) - 1), !.ret = v]

\* Option::unwrap / Option::expect on None
Panic(p, where) == [p EXCEPT !.result = [tag |-> "Panic", at |-> where]]

\* an arena that puts the new node first
add_front(p, node) == [p EXCEPT !.nodes = <<node>> \o @]

\* Parser::add; the handle it returns is Len(p.nodes), the index of the push
add(p, node) == [p EXCEPT !.nodes = Append(@, node)]

AddReturn(p, node) == Return(add(p, node), Len(p.nodes))

\* self.iter.peek() is Some
peek_some(p) == p.cursor < Len(stream)

peek_kind(p) == stream[p.cursor + 1]

\* self.iter.next(); the token taken is number p.cursor + 1 of the stream
consume(p) == [p EXCEPT !.cursor = @ + 1]

\* Parser::catch returns Some
hit(p, check) == peek_some(p) /\ peek_kind(p) \in check

\* Parser::catch, its result dropped
catch(p, check) == IF hit(p, check) THEN consume(p) ELSE p

Errored(p, msg) == [p EXCEPT !.report = error(@, msg)]

\* Parser::block: the loop head, then the Block node
block_head(p, f) ==
  IF ~peek_some(p) THEN AddReturn(p, [kind |-> "Block", expr |-> f.list])
  ELSE IF peek_kind(p) = "Eof" THEN AddReturn(p, [kind |-> "Block", expr |-> f.list])
  ELSE IF peek_kind(p) = f.end
       THEN AddReturn(consume(p), [kind |-> "Block", expr |-> f.list])
  ELSE Invoke(p, [f EXCEPT !.pc = 1], Frame("statement"))

block(p) ==
  LET f == top(p)
  IN IF f.pc = 0 THEN block_head(p, f)
     ELSE block_head(catch(p, {"SemiColon"}), [f EXCEPT !.list = Append(@, p.ret)])

\* Parser::module
module(p) ==
  LET f == top(p)
  IN IF f.pc = 0 THEN Invoke(p, [f EXCEPT !.pc = 1], Frame("block"))
     ELSE AddReturn(p, [kind |-> "Module", root |-> p.ret])

\* Parser::build
build(p) ==
  LET f == top(p)
  IN IF f.pc = 0 THEN Invoke(p, [f EXCEPT !.pc = 1], Frame("module"))
     ELSE [p EXCEPT !.stack = <<>>,
                    !.result = IF ok(p.report)
                               THEN [tag |-> "Ok", nodes |-> p.nodes, root |-> p.ret]
                               ELSE [tag |-> "Err", report |-> p.report]]

\* Parser::statement, from self.catch(&[TT::Equal]).unwrap() on
statement_equal(p, f) ==
  IF ~hit(p, {"Equal"}) THEN Panic(p, "statement: =")
  ELSE Invoke(consume(p), [f EXCEPT !.pc = 2], Frame("expression"))

\* Parser::statement
statement(p) ==
  LET f == top(p)
  IN CASE f.pc = 0 ->
            IF hit(p, {"Let", "Mut"})
            THEN LET p1 == consume(p)
                     f1 == [f EXCEPT !.op = p.cursor + 1]
                 IN IF ~hit(p1, {"Identifier"}) THEN Panic(p1, "statement: name")
                    ELSE LET p2 == consume(p1)
                             f2 == [f1 EXCEPT !.name = p1.cursor + 1]
                         IN IF hit(p2, {"Colon"})
                            THEN Invoke(consume(p2), [f2 EXCEPT !.pc = 1],
                                        Frame("type_expression"))
                            ELSE statement_equal(p2, f2)
            ELSE Invoke(p, [f EXCEPT !.pc = 9], Frame("expression"))
       [] f.pc = 1 -> statement_equal(p, [f EXCEPT !.b = p.ret])
       [] f.pc = 2 ->
            AddReturn(p, [kind |-> "Let", mutable |-> stream[f.op] = "Mut",
                          name |-> f.name, annotation |-> f.b, expr |-> p.ret])
       [] OTHER -> Return(p, p.ret)

\* Parser::expression
expression(p) ==
  LET f == top(p)
  IN IF f.pc = 0 THEN Invoke(p, [f EXCEPT !.pc = 9], Frame("function"))
     ELSE Return(p, p.ret)

\* Parser::function, from the '=>' on
function_arrow(p, f) ==
  IF hit(p, {"EqualGreater"})
  THEN Invoke(consume(p), [f EXCEPT !.pc = 3], Frame("expression"))
  ELSE IF ~peek_some(p) THEN Panic(p, "peek")
  ELSE Invoke(Errored(p, [msg |-> "expected '=>'", found |-> peek_kind(p)]),
              [f EXCEPT !.pc = 3], Frame("expression"))

\* Parser::function, the return annotation
function_ret(p, f) ==
  IF hit(p, {"Colon"})
  THEN Invoke(consume(p), [f EXCEPT !.pc = 2], Frame("type_expression"))
  ELSE function_arrow(p, f)

RECURSIVE function_args(_, _)
\* Parser::function, the parameter loop
function_args(p, f) ==
  IF hit(p, {"RParen"}) THEN function_ret(consume(p), f)
  ELSE IF ~hit(p, {"Identifier"}) THEN Panic(p, "function: parameter")
  ELSE LET p1 == consume(p)
           f1 == [f EXCEPT !.name = p.cursor + 1]
       IN \* the message of expect is built first, and it peeks
          IF ~peek_some(p1) THEN Panic(p1, "peek")
          ELSE IF hit(p1, {"Colon"})
               THEN Invoke(consume(p1), [f1 EXCEPT !.pc = 1], Frame("type_expression"))
               ELSE function_args(catch(p1, {"Comma"}),
                                  [f1 EXCEPT !.list = Append(@, <<f1.name, NONE>>)])

\* Parser::function
function(p) ==
  LET f == top(p)
  IN CASE f.pc = 0 ->
            IF hit(p, {"Fn"})
            THEN LET p1 == consume(p)
                 IN IF ~hit(p1, {"LParen"}) THEN Panic(p1, "function: (")
                    ELSE function_args(consume(p1), f)
            ELSE Invoke(p, [f EXCEPT !.pc = 9], Frame("jump"))
       [] f.pc = 1 ->
            function_args(catch(p, {"Comma"}),
                          [f EXCEPT !.list = Append(@, <<f.name, p.ret>>)])
       [] f.pc = 2 -> function_arrow(p, [f EXCEPT !.b = p.ret])
       [] f.pc = 3 ->
            AddReturn(p, [kind |-> "Fn", args |-> f.list, ret |-> f.b, expr |-> p.ret])
       [] OTHER -> Return(p, p.ret)

\* Parser::jump
jump(p) ==
  LET f == top(p)
  IN CASE f.pc = 0 ->
            IF hit(p, {"If"})
            THEN Invoke(consume(p), [f EXCEPT !.pc = 1, !.op = p.cursor + 1],
                        Frame("equality"))
            ELSE Invoke(p, [f EXCEPT !.pc = 9], Frame("equality"))
       [] f.pc = 1 -> Invoke(p, [f EXCEPT !.pc = 2, !.a = p.ret], Frame("expression"))
       [] f.pc = 2 ->
            IF hit(p, {"Else"})
            THEN Invoke(consume(p), [f EXCEPT !.pc = 3, !.b = p.ret], Frame("expression"))
            ELSE AddReturn(p, [kind |-> "If", op |-> f.op, condition |-> f.a,
                               then_branch |-> p.ret, else_branch |-> NONE])
       [] f.pc = 3 ->
            AddReturn(p, [kind |-> "If", op |-> f.op, condition |-> f.a,
                          then_branch |-> f.b, else_branch |-> p.ret])
       [] OTHER -> Return(p, p.ret)

EqualityOps == {"EqualEqual", "BangEqual", "Lesser", "LesserEqual", "Greater", "GreaterEqual"}

TermOps == {"Plus", "Minus"}

\* a multiplicative tier that also takes '+'
FactorOpsWithPlus == {"Star", "Slash", "Plus"}

FactorOps == {"Star", "Slash"}

\* while let Some(op) = self.catch(ops) { right = sub(); left = Binary }
binary_loop(p, f, ops, sub) ==
  IF hit(p, ops)
  THEN Invoke(consume(p), [f EXCEPT !.pc = 2, !.op = p.cursor + 1], Frame(sub))
  ELSE Return(p, f.a)

\* the shape equality, term and factor share
binary_tier(p, ops, sub) ==
  LET f == top(p)
  IN CASE f.pc = 0 -> Invoke(p, [f EXCEPT !.pc = 1], Frame(sub))
       [] f.pc = 1 -> binary_loop(p, [f EXCEPT !.a = p.ret], ops, sub)
       [] OTHER ->
            binary_loop(add(p, [kind |-> "Binary", left |-> f.a, op |-> f.op,
                                right |-> p.ret]),
                        [f EXCEPT !.a = Len(p.nodes)], ops, sub)

\* Parser::equality
equality(p) == binary_tier(p, EqualityOps, "term")

\* Parser::term
term(p) == binary_tier(p, TermOps, "factor")

\* Parser::factor
factor(p) == binary_tier(p, FactorOps, "unary")

\* Parser::unary
unary(p) ==
  LET f == top(p)
  IN CASE f.pc = 0 ->
            IF hit(p, {"Minus", "Bang"})
            THEN Invoke(consume(p), [f EXCEPT !.pc = 1, !.op = p.cursor + 1], Frame("unary"))
            ELSE Invoke(p, [f EXCEPT !.pc = 9], Frame("call"))
       [] f.pc = 1 -> AddReturn(p, [kind |-> "Unary", op |-> f.op, right |-> p.ret])
       [] OTHER -> Return(p, p.ret)

RECURSIVE call_loop(_, _)
RECURSIVE call_close(_, _)
\* Parser::call, the loop over '(' argument lists
call_loop(p, f) ==
  IF hit(p, {"LParen"})
  THEN LET p1 == consume(p)
           f1 == [f EXCEPT !.list = <<>>]
       IN IF ~peek_some(p1) THEN Panic(p1, "peek")
          ELSE IF peek_kind(p1) # "RParen"
               THEN Invoke(p1, [f1 EXCEPT !.pc = 2], Frame("expression"))
               ELSE call_close(p1, f1)
  ELSE Return(p, f.a)

\* Parser::call, self.catch(&[TT::RParen]).unwrap() and the Call node
call_close(p, f) ==
  IF ~hit(p, {"RParen"}) THEN Panic(p, "call: )")
  ELSE call_loop(add(consume(p), [kind |-> "Call", op |-> p.cursor + 1,
                                  expr |-> f.a, args |-> f.list]),
                 [f EXCEPT !.a = Len(p.nodes)])

\* Parser::call
call(p) ==
  LET f == top(p)
  IN CASE f.pc = 0 -> Invoke(p, [f EXCEPT !.pc = 1], Frame("primary"))
       [] f.pc = 1 -> call_loop(p, [f EXCEPT !.a = p.ret])
       [] OTHER ->
            LET f1 == [f EXCEPT !.list = Append(@, p.ret)]
            IN IF hit(p, {"Comma"})
               THEN Invoke(consume(p), [f1 EXCEPT !.pc = 2], Frame("expression"))
               ELSE call_close(p, f1)

\* Parser::primary
primary(p) ==
  LET f == top(p)
  IN CASE f.pc = 0 ->
            IF ~peek_some(p) THEN Panic(p, "peek")
            ELSE LET kind == peek_kind(p)
                     tok == p.cursor + 1
                 IN CASE kind = "Identifier" ->
                           AddReturn(consume(p), [kind |-> "Identifier", name |-> tok])
                      [] kind = "True" ->
                           AddReturn(consume(p), [kind |-> "Bool", value |-> TRUE])
                      [] kind = "False" ->
                           AddReturn(consume(p), [kind |-> "Bool", value |-> FALSE])
                      [] kind = "Integer" ->
                           AddReturn(consume(p), [kind |-> "Integer", value |-> tok])
                      [] kind = "Float" ->
                           AddReturn(consume(p), [kind |-> "Float", value |-> tok])
                      [] kind = "LParen" ->
                           Invoke(consume(p), [f EXCEPT !.pc = 1], Frame("expression"))
                      [] kind = "LBrace" ->
                           Invoke(consume(p), [f EXCEPT !.pc = 9],
                                  [Frame("block") EXCEPT !.end = "RBrace"])
                      [] OTHER ->
                           AddReturn(consume(Errored(p, [msg |-> "unexpected token",
                                                         found |-> kind])),
                                     [kind |-> "Error"])
       [] f.pc = 1 ->
            IF hit(p, {"RParen"})
            THEN AddReturn(consume(p), [kind |-> "Group", expr |-> p.ret])
            ELSE AddReturn(p, [kind |-> "Error"])
       [] OTHER -> Return(p, p.ret)

\* Parser::type_expression
type_expression(p) ==
  LET f == top(p)
  IN IF f.pc = 0 THEN Invoke(p, [f EXCEPT !.pc = 9], Frame("type_primary"))
     ELSE Return(p, p.ret)

\* Parser::type_primary
type_primary(p) ==
  IF ~peek_some(p) THEN Panic(p, "peek")
  ELSE IF peek_kind(p) = "Identifier"
       THEN AddReturn(consume(p), [kind |-> "Identifier", name |-> p.cursor + 1])
       ELSE AddReturn(consume(Errored(p, [msg |-> "unexpected token",
                                          found |-> peek_kind(p)])),
                      [kind |-> "Error"])

\* ------------------------------------------------- the parser's actions
Running(fn) ==
  /\ ast.tag = "Pending"
  /\ stack # <<>>
  /\ stack[Len(stack)].fn = fn

Becomes(p) ==
  /\ cursor' = p.cursor
  /\ nodes' = p.nodes
  /\ diagnostics' = p.report
  /\ stack' = p.stack
  /\ ret' = p.ret
  /\ ast' = p.result
  /\ UNCHANGED <<stream, tokVars, bindVars>>

Build == Running("build") /\ Becomes(build(Parser))
Module == Running("module") /\ Becomes(module(Parser))
Block == Running("block") /\ Becomes(block(Parser))
Statement == Running("statement") /\ Becomes(statement(Parser))
Expression == Running("expression") /\ Becomes(expression(Parser))
Function == Running("function") /\ Becomes(function(Parser))
Jump == Running("jump") /\ Becomes(jump(Parser))
Equality == Running("equality") /\ Becomes(equality(Parser))
Term == Running("term") /\ Becomes(term(Parser))
Factor == Running("factor") /\ Becomes(factor(Parser))
Unary == Running("unary") /\ Becomes(unary(Parser))
Call == Running("call") /\ Becomes(call(Parser))
Primary == Running("primary") /\ Becomes(primary(Parser))
TypeExpression == Running("type_expression") /\ Becomes(type_expression(Parser))
TypePrimary == Running("type_primary") /\ Becomes(type_primary(Parser))

\* ------------------------------------------------------ the parser's input
\* token kinds drawn freely, up to MaxTokens of them before the sentinel
Kinds == {"Identifier", "Integer", "Plus", "Minus", "Star", "LParen", "RParen",
          "LBrace", "RBrace", "Let", "Colon", "Equal", "Fn", "EqualGreater",
          "Comma", "If"}

\* the binary operators drawn for operand/operator chains
ChainOps == {"Plus", "Minus", "Star", "EqualEqual", "Lesser"}

RECURSIVE Chains(_)
\* an operand followed by up to n (operator, operand) pairs
Chains(n) ==
  IF n = 0 THEN {<<"Integer">>}
  ELSE LET shorter == Chains(n - 1)
       IN shorter \cup {q \o <<o, "Integer">> :
                          q \in {x \in shorter : Len(x) = 2 * n - 1}, o \in ChainOps}

\* the programs of the repository's tests, and one use of each construct
Samples == {
  <<"Let", "Identifier", "Equal", "Fn", "LParen", "Identifier", "RParen",
    "EqualGreater", "Identifier", "Plus", "Identifier">>,
  <<"Let", "Identifier", "Equal", "Integer">>,
  <<"Mut", "Identifier", "Colon", "Identifier", "Equal", "True">>,
  <<"LParen", "Integer", "Plus", "Integer">>,
  <<"LParen", "Integer", "Plus", "Integer", "RParen", "Star", "Float">>,
  <<"Fn", "LParen", "RParen", "Integer">>,
  <<"Fn", "LParen", "Identifier", "Colon", "Identifier", "Comma", "Identifier",
    "RParen", "Colon", "Identifier", "EqualGreater", "Identifier">>,
  <<"If", "False", "Integer", "Else", "Integer">>,
  <<"Identifier", "LParen", "Integer", "Comma", "Integer", "RParen">>,
  <<"Identifier", "LParen", "RParen", "LParen", "Integer">>,
  <<"LBrace", "Integer", "SemiColon", "Integer", "RBrace", "SemiColon", "Integer">>,
  <<"Bang", "Minus", "Identifier", "Slash", "Integer">> }

Streams ==
  {Append(q, "Eof") : q \in SeqsUpTo(Kinds, MaxTokens) \cup Chains(MaxOps) \cup Samples}

\* the identifiers the binder meets
Names == {"x", "y"}

\* what a name table holds for a name: no entry, or an Option<TypeIndex>
Entries == {"absent", "None", "Some(0)"}

\* no scan under way
TokIdle ==
  /\ src = <<>>
  /\ iter = 0 /\ start = 0 /\ current = 0
  /\ tokens = <<>> /\ report = <<>>
  /\ result = Pending

\* no parse under way
ParseIdle ==
  /\ stream = <<"Eof">>
  /\ cursor = 0 /\ nodes = <<>> /\ diagnostics = <<>>
  /\ stack = <<>>
  /\ ret = NONE
  /\ ast = Pending

\* no binder at work
BindIdle ==
  /\ map = <<[n \in Names |-> "absent"]>>
  /\ binder = "ok"
  /\ saved = <<>>
  /\ last = [op |-> "new", closed |-> <<>>, dropped |-> <<>>]

\* Parser::new
InitParse ==
  /\ stream \in Streams
  /\ cursor = 0 /\ nodes = <<>> /\ diagnostics = <<>>
  /\ stack = <<Frame("build")>>
  /\ ret = NONE
  /\ ast = Pending
  /\ TokIdle
  /\ BindIdle

NextParse ==
  \/ Build \/ Module \/ Block \/ Statement \/ Expression \/ Function \/ Jump
  \/ Equality \/ Term \/ Factor \/ Unary \/ Call \/ Primary
  \/ TypeExpression \/ TypePrimary

SpecParse == InitParse /\ [][NextParse]_vars

\* --------------------------------------------------------------- Bindings
\* a scope exit that drops the outermost table
scope_end_outermost(m) == IF m = <<>> THEN m ELSE Tail(m)

\* Bindings::scope_end: Vec::pop, which leaves an empty Vec alone
scope_end(m) == IF m = <<>> THEN m ELSE SubSeq(m, 1, Len(m) - 1)

\* Bindings::scope_begin, on a stack that has a table
scope_begin(m) == Append(m, m[Len(m)])

\* a binding added to the innermost table
insert(m, name, entry) == [m EXCEPT ![Len(m)][name] = entry]

ScopeBegin ==
  /\ binder = "ok"
  /\ Len(map) <= MaxDepth
  /\ IF map = <<>>
     THEN binder' = "panic" /\ UNCHANGED <<map, saved>>
     ELSE map' = scope_begin(map) /\ saved' = Append(saved, map) /\ UNCHANGED binder
  /\ last' = [op |-> "scope_begin", closed |-> <<>>, dropped |-> <<>>]
  /\ UNCHANGED <<tokVars, parseVars>>

ScopeEnd ==
  /\ binder = "ok"
  /\ map' = scope_end(map)
  /\ saved' = IF saved = <<>> THEN saved ELSE SubSeq(saved, 1, Len(saved) - 1)
  /\ last' = [op |-> "scope_end",
              closed |-> IF saved = <<>> THEN <<>> ELSE <<saved[Len(saved)]>>,
              dropped |-> IF map = <<>> THEN <<>> ELSE <<map[Len(map)]>>]
  /\ UNCHANGED <<binder, tokVars, parseVars>>

Bind ==
  /\ binder = "ok"
  /\ map # <<>>
  /\ \E name \in Names, entry \in Entries \ {"absent"} :
       map' = insert(map, name, entry)
  /\ last' = [op |-> "insert", closed |-> <<>>, dropped |-> <<>>]
  /\ UNCHANGED <<binder, saved, tokVars, parseVars>>

\* Bindings::new
InitBind ==
  /\ BindIdle
  /\ TokIdle
  /\ ParseIdle

NextBind == ScopeBegin \/ ScopeEnd \/ Bind

SpecBind == InitBind /\ [][NextBind]_vars

\* Tokenize::new
InitTok ==
  /\ src \in SeqsUpTo(Chars, MaxSrcLen)
  /\ iter = 0 /\ start = 0 /\ current = 0
  /\ tokens = <<>> /\ report = <<>>
  /\ result = Pending
  /\ ParseIdle
  /\ BindIdle

NextTok ==
  \/ ScanSymbol \/ ScanEqual \/ ScanWhitespace \/ ScanNumber
  \/ ScanWord \/ ScanUnknown \/ Finish

SpecTok == InitTok /\ [][NextTok]_vars

\* ------------------------------------------------------- scanner claims
Recognized(c) ==
  c \in Symbols \cup {"="} \/ is_whitespace(c) \/ is_numeric(c) \/ is_alphabetic(c)

RECURSIVE UnknownsUpTo(_, _)
\* the unrecognized characters among the first n of s, in source order, each
\* with its position in the character sequence
UnknownsUpTo(s, n) ==
  IF n = 0 THEN <<>>
  ELSE IF Recognized(s[n]) THEN UnknownsUpTo(s, n - 1)
       ELSE Append(UnknownsUpTo(s, n - 1), [ch |-> s[n], at |-> n - 1])

Unknowns(s) == UnknownsUpTo(s, Len(s))

\* C1: once tokenize has ended, it has returned a token sequence iff the
\* source holds no unrecognized character, and with k >= 1 unrecognized
\* characters it has returned only the report, holding exactly those k
\* characters with their offsets in source order.
C1_AllOrNothing ==
  result.tag # "Pending" =>
    /\ (result.tag = "Ok") <=> (Unknowns(src) = <<>>)
    /\ Unknowns(src) # <<>> =>
         /\ result.tag = "Err"
         /\ result.report = Unknowns(src)

\* C5: a returned token sequence ends with Eof and holds Eof nowhere else;
\* a source of whitespace only (the empty source too) returns exactly [Eof].
C5_EofSentinel ==
  /\ result.tag = "Ok" =>
       LET t == result.tokens
       IN /\ Len(t) >= 1
          /\ t[Len(t)].kind = "Eof"
          /\ \A i \in 1..(Len(t) - 1) : t[i].kind # "Eof"
  /\ (result.tag # "Pending" /\ \A i \in 1..Len(src) : is_whitespace(src[i])) =>
       /\ result.tag = "Ok"
       /\ result.tokens = <<Token("Eof", 0, 0)>>

C5_Witness ==
  /\ result.tag = "Ok"
  /\ Len(result.tokens) >= 3
  /\ \E i \in 1..Len(src) : src[i] = "nbsp"

\* the characters the scanner consumed for a token: start and current count
\* characters taken from the iterator
Scanned(s, t) == SubSeq(s, t.s + 1, t.e)

\* C6: in a returned token sequence every non-Eof token's span satisfies
\* start < end <= byte length of the source and slicing the source by it
\* yields exactly the characters scanned for the token; Eof slices to "".
C6_ByteSpans ==
  result.tag = "Ok" =>
    \A i \in 1..Len(result.tokens) :
      LET t == result.tokens[i]
      IN IF t.kind = "Eof"
         THEN str_from_ok(src, t) /\ str_from(src, t) = <<>>
         ELSE /\ t.s < t.e
              /\ t.e <= ByteLen(src)
              /\ str_from_ok(src, t)
              /\ str_from(src, t) = Scanned(src, t)

AllNumeric(s, a, b) == \A i \in a..b : is_numeric(s[i])

\* C9: every Integer token is a maximal run of digits not followed by a dot,
\* every Float token is a maximal run of digits, one dot and the (possibly
\* empty) maximal run of digits after it; every digit of a tokenized source
\* lies in a numeric literal or in a word.
C9_NumericLongestMatch ==
  /\ \A i \in 1..Len(tokens) :
       LET t == tokens[i]
       IN /\ t.kind = "Integer" =>
               /\ t.s < t.e
               /\ AllNumeric(src, t.s + 1, t.e)
               /\ t.e < Len(src) => ~is_numeric(src[t.e + 1]) /\ src[t.e + 1] # "."
          /\ t.kind = "Float" =>
               \E d \in (t.s + 2)..t.e :
                  /\ src[d] = "."
                  /\ AllNumeric(src, t.s + 1, d - 1)
                  /\ AllNumeric(src, d + 1, t.e)
                  /\ t.e < Len(src) => ~is_numeric(src[t.e + 1])
  /\ result.tag = "Ok" =>
       \A p \in 1..Len(src) :
         is_numeric(src[p]) =>
           \E i \in 1..Len(tokens) :
              /\ tokens[i].s < p /\ p <= tokens[i].e
              /\ tokens[i].kind \in {"Integer", "Float", "Identifier"}

C9_Witness ==
  /\ result.tag = "Ok"
  /\ \E i \in 1..Len(tokens) :
       /\ tokens[i].kind = "Float"
       /\ src[tokens[i].e] = "."
  /\ \E i \in 1..Len(tokens) : tokens[i].kind = "Integer"

\* -------------------------------------------------------- parser claims
\* the kinds tokenize can emit (token.rs:140-211, 236)
ScannerKinds ==
  {SymbolKind(c) : c \in Symbols}
    \cup {"Equal", "EqualEqual", "EqualGreater", "Integer", "Float", "Identifier",
          "True", "False", "If", "Else", "Let", "Mut", "Fn", "Eof"}

FromTokenize(s) ==
  /\ \A i \in 1..Len(s) : s[i] \in ScannerKinds
  /\ s[Len(s)] = "Eof"
  /\ \A i \in 1..(Len(s) - 1) : s[i] # "Eof"

\* C2: on a token sequence that tokenize produced the parser never aborts:
\* a missing required token is a diagnostic and an Error node, not a panic.
C2_NeverAborts == FromTokenize(stream) => ast.tag # "Panic"

HasError(ns) == \E h \in 1..Len(ns) : ns[h].kind = "Error"

\* C3: whenever the arena holds an Error node the report holds a diagnostic,
\* and a tree returned as success holds no Error node.
C3_ErrorNodeReported ==
  /\ HasError(nodes) => diagnostics # <<>>
  /\ ast.tag = "Ok" => ~HasError(ast.nodes)

\* C4: on a token sequence ending with Eof the parser never consumes the
\* Eof, so the cursor stays before the sentinel and no peek or next finds
\* the iterator exhausted.
C4_EofNeverConsumed ==
  stream[Len(stream)] = "Eof" =>
    /\ cursor < Len(stream)
    /\ ~(ast.tag = "Panic" /\ ast.at = "peek")

Range(s) == {s[i] : i \in 1..Len(s)}

\* the handles a node stores
Children(n) ==
  CASE n.kind = "Module" -> {n.root}
    [] n.kind = "Block" -> Range(n.expr)
    [] n.kind = "Fn" -> ({n.expr, n.ret} \cup {a[2] : a \in Range(n.args)}) \ {NONE}
    [] n.kind = "Group" -> {n.expr}
    [] n.kind = "Binary" -> {n.left, n.right}
    [] n.kind = "Unary" -> {n.right}
    [] n.kind = "Call" -> {n.expr} \cup Range(n.args)
    [] n.kind = "If" -> {n.condition, n.then_branch, n.else_branch} \ {NONE}
    [] n.kind = "Let" -> {n.expr, n.annotation} \ {NONE}
    [] OTHER -> {}

IsPrefix(a, b) == Len(a) <= Len(b) /\ \A i \in 1..Len(a) : a[i] = b[i]

\* node h (0-based handle) is ns[h + 1]
BackwardRefs(ns) ==
  \A i \in 1..Len(ns) : \A c \in Children(ns[i]) : 0 <= c /\ c < i - 1

\* C7: every step of the parser leaves the nodes it had where they were and
\* only appends, and every handle a node stores is strictly smaller than
\* the node's own handle.
C7_ArenaAppendOnly == [][IsPrefix(nodes, nodes') /\ BackwardRefs(nodes')]_vars

C7_Witness ==
  /\ ast.tag = "Ok"
  /\ \E i \in 1..Len(nodes) :
       /\ nodes[i].kind = "Let"
       /\ nodes[nodes[i].expr + 1].kind = "Fn"
       /\ nodes[i].expr < i - 1

\* the tiers of the precedence ladder, loosest first
OpTier(kind) ==
  CASE kind \in {"EqualEqual", "BangEqual", "Lesser", "LesserEqual", "Greater",
                 "GreaterEqual"} -> 1
    [] kind \in {"Plus", "Minus"} -> 2
    [] kind \in {"Star", "Slash"} -> 3

NodeTier(ns, h) ==
  IF ns[h + 1].kind = "Binary" THEN OpTier(stream[ns[h + 1].op]) ELSE 4

Operands == {"Integer", "Float", "Identifier"}

BinaryOps == {"EqualEqual", "BangEqual", "Lesser", "LesserEqual", "Greater",
              "GreaterEqual", "Plus", "Minus", "Star", "Slash"}

\* operand (operator operand)* Eof
IsChain(s) ==
  /\ Len(s) % 2 = 0
  /\ s[Len(s)] = "Eof"
  /\ \A i \in 1..(Len(s) - 1) :
       IF i % 2 = 1 THEN s[i] \in Operands ELSE s[i] \in BinaryOps

RECURSIVE InOrder(_, _)
\* the tokens of the subtree at handle h, left to right
InOrder(ns, h) ==
  LET n == ns[h + 1]
  IN CASE n.kind = "Binary" -> InOrder(ns, n.left) \o <<n.op>> \o InOrder(ns, n.right)
       [] n.kind \in {"Integer", "Float"} -> <<n.value>>
       [] n.kind = "Identifier" -> <<n.name>>
       [] OTHER -> <<>>

\* C8: in a tree returned as success every Binary node's right operand binds
\* strictly tighter than the node and its left operand at least as tight
\* (so equal tiers group to the left); a chain of operands and binary
\* operators yields one statement that reads the tokens in source order;
\* and 1 + 1 yields Module(Block[Binary(Integer, Plus, Integer)]).
C8_PrecedenceLeftAssoc ==
  ast.tag = "Ok" =>
    LET ns == ast.nodes
    IN /\ \A i \in 1..Len(ns) :
            ns[i].kind = "Binary" =>
               /\ NodeTier(ns, ns[i].left) >= NodeTier(ns, i - 1)
               /\ NodeTier(ns, ns[i].right) > NodeTier(ns, i - 1)
       /\ IsChain(stream) =>
            /\ ns[ast.root + 1].kind = "Module"
            /\ ns[ns[ast.root + 1].root + 1].kind = "Block"
            /\ Len(ns[ns[ast.root + 1].root + 1].expr) = 1
            /\ InOrder(ns, ns[ns[ast.root + 1].root + 1].expr[1])
                 = [i \in 1..(Len(stream) - 1) |-> i]
       /\ stream = <<"Integer", "Plus", "Integer", "Eof">> =>
            ns = << [kind |-> "Integer", value |-> 1],
                    [kind |-> "Integer", value |-> 3],
                    [kind |-> "Binary", left |-> 0, op |-> 2, right |-> 1],
                    [kind |-> "Block", expr |-> <<2>>],
                    [kind |-> "Module", root |-> 3] >>

C8_Witness ==
  /\ ast.tag = "Ok"
  /\ IsChain(stream)
  /\ \E i \in 1..Len(nodes) :
       /\ nodes[i].kind = "Binary"
       /\ nodes[nodes[i].left + 1].kind = "Binary"
       /\ NodeTier(nodes, nodes[i].left) = NodeTier(nodes, i - 1)
       /\ nodes[nodes[i].right + 1].kind = "Binary"

\* --------------------------------------------------------- binder claims
\* C10: a scope_end that closes a scope_begin leaves the scope stack (its
\* depth and every table) as it was just before that scope_begin, whatever
\* was bound in between; a scope_begin pushes a copy of the innermost table.
C10_ScopeRestore ==
  /\ (last.op = "scope_end" /\ last.closed # <<>>) => map = last.closed[1]
  /\ (last.op = "scope_begin" /\ binder = "ok") =>
       /\ Len(map) >= 2
       /\ map[Len(map)] = map[Len(map) - 1]

C10_Witness ==
  /\ last.op = "scope_end"
  /\ last.closed # <<>>
  /\ Len(map) >= 2
  /\ last.dropped[1] # map[Len(map)]
  /\ map[Len(map)] # map[1]

====
